---- MODULE Spec2Model ----
(***************************************************************************)
(* Presence tracking and real-time fan-out of DevConnect-Server.           *)
(*                                                                         *)
(* The repository holds two Socket.IO entry points: src/server.js (events  *)
(* sendMessage / newMessage, personal room = bare user id) and             *)
(* src/unnamed/part_009 (events send_message / receive_message, personal   *)
(* room = "user_" + user id, app.set("io", io)).  A behaviour of the model *)
(* is one process started from one of them; entryPoint says which.         *)
(*                                                                         *)
(* Room names, user ids and socket ids are strings, as in the code, and a  *)
(* room name is built by the same concatenation the code uses.             *)
(***************************************************************************)
EXTENDS Integers, Sequences, FiniteSets, TLC

\* ---------------------------------------------------------------- bounds
NumUsers == 2
MaxSockets == 3
MaxPendingReads == 1
MaxBookings == 2
MaxInflight == 2

UserIds == {"u" \o ToString(i) : i \in 1..NumUsers}
SocketIds == {"s" \o ToString(i) : i \in 1..MaxSockets}

\* a token subject that matches no user record
GhostId == "ghost"

\* a further account that only listens: it may connect and join rooms, and no
\* payload names it
BystanderId == "u0"

\* the ids of the user records
Accounts == UserIds \cup {BystanderId}

EntryServer == "server.js"
EntryPart009 == "part_009"

VARIABLES
  entryPoint,    \* which entry point this process runs
  proc,          \* "running" | "closing" (server.close() called) | "exited"
  conn,          \* per socket id: "unused" | "rejected" | "connected" | "disconnected"
  socketUserId,  \* socket.userId, attached by the authentication middleware
  onlineUsers,   \* the Map onlineUsers: userId -> socketId of the entry
  rooms,         \* per socket id: the set of room names the socket is in
  unread,        \* Message collection: <<sender, receiver>> pairs having read:false documents
  dbLastSeen,    \* User collection: users whose lastSeen was written by a disconnect
  connections,   \* Connection collection: the documents, as records
  notifications, \* Notification collection: <<userId, type>> of the stored documents
  inactiveUsers, \* User collection: the users whose isActive is false
  likes,         \* Post collection: <<postId, userId>> of the likes of the posts
  pendingReads,  \* messagesRead handlers suspended on Message.updateMany
  bookings,      \* Booking collection: per booking id the document, or NoBooking
  inflight,      \* REST handlers suspended between their lookup and their save
  emitted,       \* the emissions issued by the last handler, in program order
  lastPresence,  \* per user: the last transition event emitted for the user
  lastOp         \* the handler that ran last, with its input

vars == <<entryPoint, proc, conn, socketUserId, onlineUsers, rooms, unread,
          dbLastSeen, connections, notifications, inactiveUsers, likes,
          pendingReads, bookings, inflight, emitted, lastPresence, lastOp>>

\* ---------------------------------------------------------------- values
\* the JS value undefined, for an absent payload or an absent object field
Undefined == [undefined |-> TRUE]

\* falsy string (undefined or "") for an absent string field
Missing == ""

\* the _id values of the Booking documents, and the absent document
BookingIds == {"b" \o ToString(i) : i \in 1..MaxBookings}
NoBooking == [status |-> "none"]

MessageIds == {"m1"}
Contents == {"hi"}

Live == {s \in SocketIds : conn[s] = "connected"}

LiveSessionsOf(u) == {s \in Live : socketUserId[s] = u}

\* ---------------------------------------------------------------- rooms
\* server.js joins the bare id, part_009 joins `user_${socket.userId}`
UserRoom(userId) == "user_" \o userId

PersonalRoom(userId) ==
  IF entryPoint = EntryServer THEN userId ELSE UserRoom(userId)

\* the sockets in a room (adapter.rooms.get(room)), over a membership map
RoomMembersIn(rm, room) == {s \in SocketIds : room \in rm[s]}

\* io.to(room).emit: every socket in the room
IoTo(rm, room) == RoomMembersIn(rm, room)

\* socket.to(room).emit: every socket in the room except the sender
SocketTo(rm, s, room) == RoomMembersIn(rm, room) \ {s}

\* io.emit that still serves the sockets that disconnected
IoAllEverConnected(cn) == {s \in SocketIds : cn[s] \in {"connected", "disconnected"}}

\* io.emit: every socket connected to the namespace
IoAll(cn) == {s \in SocketIds : cn[s] = "connected"}

\* socket.broadcast.emit: every connected socket except the sender
Broadcast(cn, s) == IoAll(cn) \ {s}

Emission(event, data, to) == [event |-> event, data |-> data, to |-> to]

\* the keys of the registry as it was when the handler started
OnlineKeysAtStart(ou) == DOMAIN onlineUsers

\* Array.from(onlineUsers.keys())
OnlineKeys(ou) == DOMAIN ou

\* isUserOnline(connectedUsers, userId)
isUserOnline(connectedUsers, userId) == userId \in DOMAIN connectedUsers

\* Map.delete that leaves the key in place
MapDeleteKeepsKey(m, k) == m

\* Map.set / Map.delete
MapSet(m, k, v) == [x \in (DOMAIN m) \cup {k} |-> IF x = k THEN v ELSE m[x]]
MapDelete(m, k) == [x \in (DOMAIN m) \ {k} |-> m[x]]

\* ---------------------------------------------------------------- event names
EvOnlineSet == IF entryPoint = EntryServer THEN "onlineUsers" ELSE "online_users"
EvOnline == IF entryPoint = EntryServer THEN "userOnline" ELSE "user_online"
EvOffline == IF entryPoint = EntryServer THEN "userOffline" ELSE "user_offline"

\* the last transition event per user after a handler's emissions
PresenceAfter(ems) ==
  [u \in Accounts |->
     IF \E i \in 1..Len(ems) : ems[i].event = EvOffline /\ ems[i].data = u
       THEN "offline"
     ELSE IF \E i \in 1..Len(ems) : ems[i].event = EvOnline /\ ems[i].data = u
       THEN "online"
     ELSE lastPresence[u]]

\* ---------------------------------------------------------------- authentication gate
Tokens == {Missing, "bad"} \cup {"jwt_" \o u : u \in UserIds \cup {GhostId}}

\* jwt.verify(token, secret): the decoded userId, or "throw"
jwtVerify(token) ==
  IF \E u \in Accounts \cup {GhostId} : token = "jwt_" \o u
    THEN CHOOSE u \in Accounts \cup {GhostId} : token = "jwt_" \o u
    ELSE "throw"

\* User.findById(id): the user record's id, or "null"
findById(id) == IF id \in Accounts THEN id ELSE "null"

\* io.use middleware without the check of the user record
AuthenticateNoUserCheck(token) ==
  IF token = Missing THEN "reject"
  ELSE IF jwtVerify(token) = "throw" THEN "reject"
  ELSE jwtVerify(token)

\* io.use middleware: the userId attached to the socket, or "reject"
Authenticate(token) ==
  IF token = Missing THEN "reject"
  ELSE IF jwtVerify(token) = "throw" THEN "reject"
  ELSE IF findById(jwtVerify(token)) = "null" THEN "reject"
  ELSE findById(jwtVerify(token))

\* the transport hands out fresh socket ids: the next unused one
NextSocketId(s) ==
  /\ conn[s] = "unused"
  /\ \A i \in 1..MaxSockets :
       s = "s" \o ToString(i) =>
         \A j \in 1..(i - 1) : conn["s" \o ToString(j)] # "unused"

\* ---------------------------------------------------------------- Init
Init ==
  /\ entryPoint \in {EntryServer, EntryPart009}
  /\ proc = "running"
  /\ conn = [s \in SocketIds |-> "unused"]
  /\ socketUserId = [s \in SocketIds |-> "none"]
  /\ onlineUsers = << >>
  /\ rooms = [s \in SocketIds |-> {}]
  /\ unread = {}
  /\ dbLastSeen = {}
  /\ connections = {}
  /\ notifications = {}
  /\ inactiveUsers = {}
  /\ likes = {}
  /\ pendingReads = {}
  /\ bookings = [b \in BookingIds |-> NoBooking]
  /\ inflight = {}
  /\ emitted = << >>
  /\ lastPresence = [u \in Accounts |-> "none"]
  /\ lastOp = [op |-> "init"]

\* ---------------------------------------------------------------- connect
\* a connection attempt the middleware rejects: the connection handler never runs
ConnectionRejected(s, token) ==
  /\ proc = "running"
  /\ NextSocketId(s)
  /\ Authenticate(token) = "reject"
  /\ conn' = [conn EXCEPT ![s] = "rejected"]
  /\ emitted' = << >>
  /\ lastOp' = [op |-> "reject", socket |-> s, token |-> token]
  /\ UNCHANGED <<bookings, inflight, inactiveUsers, likes, pendingReads, connections, notifications, entryPoint, proc, socketUserId, onlineUsers, rooms, unread,
                 dbLastSeen, lastPresence>>

\* io.on("connection"): registry insert, personal-room join, the two broadcasts
Connection(s, token) ==
  /\ proc = "running"
  /\ NextSocketId(s)
  /\ Authenticate(token) # "reject"
  /\ LET userId == Authenticate(token)
         cn == [conn EXCEPT ![s] = "connected"]
         ou == MapSet(onlineUsers, userId, s)
         ems == << Emission(EvOnlineSet, OnlineKeys(ou), IoAll(cn)),
                   Emission(EvOnline, userId, Broadcast(cn, s)) >>
     IN /\ conn' = cn
        /\ socketUserId' = [socketUserId EXCEPT ![s] = userId]
        /\ onlineUsers' = ou
        /\ rooms' = [rooms EXCEPT ![s] = {s, PersonalRoom(userId)}]
        /\ emitted' = ems
        /\ lastPresence' = PresenceAfter(ems)
        /\ lastOp' = [op |-> "connection", socket |-> s, userId |-> userId,
                      token |-> token]
  /\ UNCHANGED <<bookings, inflight, inactiveUsers, likes, pendingReads, connections, notifications, entryPoint, proc, unread, dbLastSeen>>

\* ---------------------------------------------------------------- disconnect
\* socket.on("disconnect"): the socket has left its rooms and the namespace
\* before the handler runs; part_009 also writes lastSeen (the write may fail)
Disconnect(s, dbOk) ==
  /\ proc \in {"running", "closing"}
  /\ conn[s] = "connected"
  /\ LET userId == socketUserId[s]
         cn == [conn EXCEPT ![s] = "disconnected"]
         ou == MapDelete(onlineUsers, userId)
         ems == << Emission(EvOnlineSet, OnlineKeys(ou), IoAll(cn)),
                   Emission(EvOffline, userId, Broadcast(cn, s)) >>
     IN /\ conn' = cn
        /\ rooms' = [rooms EXCEPT ![s] = {}]
        /\ onlineUsers' = ou
        /\ dbLastSeen' = IF entryPoint = EntryPart009 /\ dbOk
                           THEN dbLastSeen \cup {userId} ELSE dbLastSeen
        /\ emitted' = ems
        /\ lastPresence' = PresenceAfter(ems)
        /\ lastOp' = [op |-> "disconnect", socket |-> s, userId |-> userId]
  /\ UNCHANGED <<bookings, inflight, inactiveUsers, likes, pendingReads, connections, notifications, entryPoint, proc, socketUserId, unread>>

\* ---------------------------------------------------------------- uncaught exceptions
\* An exception that leaves a socket handler is an uncaught exception of the
\* process.  server.js installs no handler: the process dies, every
\* connection drops and the in-memory registry is lost.  part_009 installs
\* process.on("uncaughtException"): server.close(), then process.exit(1) once
\* the server has closed; the live sockets keep being served meanwhile.
ProcAfterUncaught == IF entryPoint = EntryServer THEN "exited" ELSE "closing"

ConnAfterUncaught ==
  IF entryPoint = EntryServer
    THEN [s \in SocketIds |-> IF conn[s] = "connected" THEN "disconnected" ELSE conn[s]]
    ELSE conn

OnlineAfterUncaught == IF entryPoint = EntryServer THEN << >> ELSE onlineUsers

RoomsAfterUncaught ==
  IF entryPoint = EntryServer THEN [s \in SocketIds |-> {}] ELSE rooms

PendingAfterUncaught == IF entryPoint = EntryServer THEN {} ELSE pendingReads

\* the callback of server.close(): no connection is left, process.exit(1)
ProcessExit ==
  /\ proc = "closing"
  /\ Live = {}
  /\ proc' = "exited"
  /\ onlineUsers' = << >>
  /\ emitted' = << >>
  /\ lastOp' = [op |-> "exit"]
  /\ UNCHANGED <<bookings, inflight, inactiveUsers, likes, pendingReads, connections, notifications, entryPoint, conn, socketUserId, rooms, unread, dbLastSeen,
                 lastPresence>>

\* ---------------------------------------------------------------- send message
\* the client's payload of sendMessage (server.js); every field is the client's
MessageData ==
  [receiver : UserIds \cup {Missing}, content : Contents \cup {Missing},
   sender : UserIds, _id : MessageIds]

ServerPayloads == {Undefined} \cup MessageData

\* !messageData || !messageData.receiver || !messageData.content
InvalidMessageData(messageData) ==
  \/ messageData = Undefined
  \/ messageData.receiver = Missing
  \/ messageData.content = Missing

\* socket.on("sendMessage") of server.js
sendMessage(s, messageData) ==
  /\ entryPoint = EntryServer
  /\ proc = "running"
  /\ conn[s] = "connected"
  /\ emitted' =
       IF InvalidMessageData(messageData)
         THEN << Emission("messageError", [error |-> "Invalid message data"], {s}) >>
         ELSE << Emission("newMessage", messageData,
                          SocketTo(rooms, s, messageData.receiver)),
                 Emission("messageDelivered", [messageId |-> messageData._id], {s}) >>
  /\ lastOp' = [op |-> "sendMessage", socket |-> s, userId |-> socketUserId[s],
                payload |-> messageData]
  /\ UNCHANGED <<bookings, inflight, inactiveUsers, likes, pendingReads, connections, notifications, entryPoint, proc, conn, socketUserId, onlineUsers, rooms, unread,
                 dbLastSeen, lastPresence>>

\* the client's payload of send_message (part_009): { receiverId, message }
MessageObjects ==
  [sender : UserIds, content : Contents \cup {Missing}, _id : MessageIds]

Part009Payloads ==
  {Undefined} \cup
  [receiverId : UserIds \cup {Missing}, message : {Undefined} \cup MessageObjects]

\* socket.on("send_message") of part_009: no validation, no try/catch.
\* Destructuring an absent payload throws before any emission; reading
\* message._id of an absent message throws after the emission to the receiver.
send_message(s, data) ==
  /\ entryPoint = EntryPart009
  /\ proc \in {"running", "closing"}
  /\ conn[s] = "connected"
  /\ LET throws == data = Undefined \/ data.message = Undefined
     IN /\ emitted' =
             IF data = Undefined THEN << >>
             ELSE IF data.message = Undefined
               THEN << Emission("receive_message", data.message,
                                IoTo(rooms, UserRoom(data.receiverId))) >>
             ELSE << Emission("receive_message", data.message,
                              IoTo(rooms, UserRoom(data.receiverId))),
                     Emission("message_delivered",
                              [messageId |-> data.message._id], {s}) >>
        /\ proc' = IF throws THEN ProcAfterUncaught ELSE proc
        /\ lastOp' = [op |-> "send_message", socket |-> s,
                      userId |-> socketUserId[s], payload |-> data, threw |-> throws]
  /\ UNCHANGED <<bookings, inflight, inactiveUsers, likes, pendingReads, connections, notifications, entryPoint, conn, socketUserId, onlineUsers, rooms, unread,
                 dbLastSeen, lastPresence>>

\* socket.on("join_user_room") of part_009: userId is the client's
join_user_room(s, userId) ==
  /\ entryPoint = EntryPart009
  /\ proc \in {"running", "closing"}
  /\ conn[s] = "connected"
  /\ rooms' = [rooms EXCEPT ![s] = @ \cup {UserRoom(userId)}]
  /\ emitted' = << >>
  /\ lastOp' = [op |-> "join_user_room", socket |-> s,
                userId |-> socketUserId[s], payload |-> userId]
  /\ UNCHANGED <<bookings, inflight, inactiveUsers, likes, pendingReads, connections, notifications, entryPoint, proc, conn, socketUserId, onlineUsers, unread,
                 dbLastSeen, lastPresence>>

\* ---------------------------------------------------------------- typing
TypingValues == {"true", "false", Missing}

\* typeof isTyping === "boolean"
IsBoolean(v) == v \in {"true", "false"}

TypingPayloads ==
  {Undefined} \cup [receiverId : UserIds \cup {Missing}, isTyping : TypingValues]

\* the suspended messagesRead handlers after a later event of session s emitted
\* to the sessions in to: each handler of s records the sessions of its own
\* destination room that were served ahead of its emission
Overtake(s, to) ==
  {[p EXCEPT !.overtaken =
      IF p.socket = s THEN @ \cup (to \cap SocketTo(rooms, s, p.otherUserId)) ELSE @]
     : p \in pendingReads}

\* socket.on("typing") of server.js.  The payload is destructured in the
\* parameter list, outside the try: an absent payload throws out of the handler.
typing(s, payload) ==
  /\ entryPoint = EntryServer
  /\ proc = "running"
  /\ conn[s] = "connected"
  /\ LET throws == payload = Undefined
     IN /\ emitted' =
             IF ~throws /\ payload.receiverId # Missing /\ IsBoolean(payload.isTyping)
               THEN << Emission("typing",
                                [userId |-> socketUserId[s], isTyping |-> payload.isTyping],
                                SocketTo(rooms, s, payload.receiverId)) >>
               ELSE << >>
        /\ proc' = IF throws THEN ProcAfterUncaught ELSE proc
        /\ conn' = IF throws THEN ConnAfterUncaught ELSE conn
        /\ onlineUsers' = IF throws THEN OnlineAfterUncaught ELSE onlineUsers
        /\ rooms' = IF throws THEN RoomsAfterUncaught ELSE rooms
        /\ pendingReads' =
             IF throws THEN PendingAfterUncaught
             ELSE IF payload.receiverId # Missing /\ IsBoolean(payload.isTyping)
               THEN Overtake(s, SocketTo(rooms, s, payload.receiverId))
             ELSE pendingReads
        /\ lastOp' = [op |-> "typing", socket |-> s, userId |-> socketUserId[s],
                      payload |-> payload, threw |-> throws]
  /\ UNCHANGED <<bookings, inflight, entryPoint, socketUserId, unread, dbLastSeen, connections,
                 notifications, inactiveUsers, likes, lastPresence>>

\* ---------------------------------------------------------------- read receipts
\* the client's payload of messagesRead (server.js): { otherUserId, readBy }
ReadPayloads == {Undefined} \cup [otherUserId : UserIds, readBy : UserIds]

\* socket.on("messagesRead") of server.js, up to the await of Message.updateMany.
\* The handler is async and destructures its parameter: an absent payload
\* rejects its promise.  server.js installs no unhandledRejection handler, so
\* the runtime either ends the process or only warns (fatal).
messagesRead(s, payload, fatal) ==
  /\ entryPoint = EntryServer
  /\ proc = "running"
  /\ conn[s] = "connected"
  /\ payload # Undefined => Cardinality(pendingReads) < MaxPendingReads
  /\ LET dies == payload = Undefined /\ fatal
     IN /\ pendingReads' =
             IF payload = Undefined
               THEN (IF dies THEN PendingAfterUncaught ELSE pendingReads)
               ELSE pendingReads \cup
                      {[socket |-> s, otherUserId |-> payload.otherUserId,
                        readBy |-> payload.readBy, stage |-> "awaiting",
                        overtaken |-> {}]}
        /\ proc' = IF dies THEN ProcAfterUncaught ELSE proc
        /\ conn' = IF dies THEN ConnAfterUncaught ELSE conn
        /\ onlineUsers' = IF dies THEN OnlineAfterUncaught ELSE onlineUsers
        /\ rooms' = IF dies THEN RoomsAfterUncaught ELSE rooms
        /\ emitted' = << >>
        /\ lastOp' = [op |-> "messagesRead", socket |-> s, userId |-> socketUserId[s],
                      payload |-> payload, threw |-> payload = Undefined]
  /\ UNCHANGED <<bookings, inflight, entryPoint, socketUserId, unread, dbLastSeen, connections,
                 notifications, inactiveUsers, likes, lastPresence>>

\* Message.updateMany({ sender: otherUserId, receiver: readBy, read: false },
\* { read: true }) settles: the store applied it (ok) or failed
updateMany(p, ok) ==
  /\ proc = "running"
  /\ p \in pendingReads
  /\ p.stage = "awaiting"
  /\ unread' = IF ok THEN unread \ {<<p.otherUserId, p.readBy>>} ELSE unread
  /\ pendingReads' = (pendingReads \ {p}) \cup
                       {[p EXCEPT !.stage = IF ok THEN "resolved" ELSE "rejected"]}
  /\ emitted' = << >>
  /\ lastOp' = [op |-> "updateMany", socket |-> p.socket, ok |-> ok]
  /\ UNCHANGED <<bookings, inflight, entryPoint, proc, conn, socketUserId, onlineUsers, rooms,
                 dbLastSeen, connections, notifications, inactiveUsers, likes,
                 lastPresence>>

\* the continuation of messagesRead after the await: the receipt, or the catch
messagesReadResume(p) ==
  /\ proc = "running"
  /\ p \in pendingReads
  /\ p.stage \in {"resolved", "rejected"}
  /\ pendingReads' = pendingReads \ {p}
  /\ emitted' =
       IF p.stage = "resolved"
         THEN << Emission("messageRead", [readBy |-> p.readBy],
                          SocketTo(rooms, p.socket, p.otherUserId)) >>
         ELSE << >>
  /\ lastOp' = [op |-> "messagesReadResume", socket |-> p.socket,
                userId |-> socketUserId[p.socket],
                payload |-> [otherUserId |-> p.otherUserId, readBy |-> p.readBy],
                updated |-> p.stage = "resolved", overtaken |-> p.overtaken]
  /\ UNCHANGED <<bookings, inflight, entryPoint, proc, conn, socketUserId, onlineUsers, rooms, unread,
                 dbLastSeen, connections, notifications, inactiveUsers, likes,
                 lastPresence>>

\* the client's payload of mark_messages_read (part_009): { senderId, readBy }
MarkReadPayloads == {Undefined} \cup [senderId : UserIds, readBy : UserIds]

\* socket.on("mark_messages_read") of part_009: a relay, the store is not touched
mark_messages_read(s, data) ==
  /\ entryPoint = EntryPart009
  /\ proc \in {"running", "closing"}
  /\ conn[s] = "connected"
  /\ LET throws == data = Undefined
     IN /\ emitted' =
             IF throws THEN << >>
             ELSE << Emission("messages_read", [readBy |-> data.readBy],
                              IoTo(rooms, UserRoom(data.senderId))) >>
        /\ proc' = IF throws THEN ProcAfterUncaught ELSE proc
        /\ lastOp' = [op |-> "mark_messages_read", socket |-> s,
                      userId |-> socketUserId[s],
                      payload |-> IF throws THEN data
                                  ELSE [otherUserId |-> data.senderId,
                                        readBy |-> data.readBy],
                      threw |-> throws]
  /\ UNCHANGED <<bookings, inflight, entryPoint, conn, socketUserId, onlineUsers, rooms, unread,
                 dbLastSeen, connections, notifications, inactiveUsers, likes,
                 pendingReads, lastPresence>>

\* ---------------------------------------------------------------- topic rooms
Topics == {"topic1", "topic2"}

\* socket.leave that drops every membership of the socket
SocketLeaveAll(memberships, roomId) == {}

\* socket.join(roomId) / socket.leave(roomId) on the socket's set of rooms
SocketJoin(memberships, roomId) == memberships \cup {roomId}
SocketLeave(memberships, roomId) == memberships \ {roomId}

\* joinRoom(socket, roomId) of socketUtils.js
joinRoom(s, roomId) ==
  /\ proc \in {"running", "closing"}
  /\ conn[s] = "connected"
  /\ rooms' = [rooms EXCEPT ![s] = SocketJoin(@, roomId)]
  /\ emitted' = << >>
  /\ lastOp' = [op |-> "joinRoom", socket |-> s, userId |-> socketUserId[s],
                room |-> roomId, member |-> roomId \in rooms[s]]
  /\ UNCHANGED <<entryPoint, proc, conn, socketUserId, onlineUsers, unread,
                 dbLastSeen, connections, notifications, inactiveUsers, likes,
                 pendingReads, bookings, inflight, lastPresence>>

\* leaveRoom(socket, roomId) of socketUtils.js
leaveRoom(s, roomId) ==
  /\ proc \in {"running", "closing"}
  /\ conn[s] = "connected"
  /\ rooms' = [rooms EXCEPT ![s] = SocketLeave(@, roomId)]
  /\ emitted' = << >>
  /\ lastOp' = [op |-> "leaveRoom", socket |-> s, userId |-> socketUserId[s],
                room |-> roomId, member |-> roomId \in rooms[s]]
  /\ UNCHANGED <<entryPoint, proc, conn, socketUserId, onlineUsers, unread,
                 dbLastSeen, connections, notifications, inactiveUsers, likes,
                 pendingReads, bookings, inflight, lastPresence>>

\* ---------------------------------------------------------------- call signaling
Offers == {"offer1", "offer2"}
Answers == {"answer1", "answer2"}
Candidates == {"candidate1", "candidate2"}
CallTypes == {"audio", "video"}

\* socket.user.name / socket.user.avatar of the authenticated user
UserName(userId) == "name_" \o userId
UserAvatar(userId) == "avatar_" \o userId

\* the relay room with the prefix left out
SignalRoomBare(peerId) == peerId

\* io.to(`user_${receiverId}`) / io.to(`user_${callerId}`)
SignalRoom(peerId) == UserRoom(peerId)

\* a signaling handler of part_009: no validation, no try/catch; destructuring
\* an absent payload throws before the emission
SignalRelay(s, op, data, ems) ==
  /\ entryPoint = EntryPart009
  /\ proc \in {"running", "closing"}
  /\ conn[s] = "connected"
  /\ emitted' = ems
  /\ proc' = IF data = Undefined THEN ProcAfterUncaught ELSE proc
  /\ lastOp' = [op |-> op, socket |-> s, userId |-> socketUserId[s],
                payload |-> data, threw |-> data = Undefined]
  /\ UNCHANGED <<entryPoint, conn, socketUserId, onlineUsers, rooms, unread,
                 dbLastSeen, connections, notifications, inactiveUsers, likes,
                 pendingReads, bookings, inflight, lastPresence>>

CallUserPayloads ==
  {Undefined} \cup [receiverId : UserIds, offer : Offers, callType : CallTypes]

\* socket.on("call_user")
call_user(s, data) ==
  SignalRelay(s, "call_user", data,
    IF data = Undefined THEN << >>
    ELSE << Emission("incoming_call",
                     [callerId |-> socketUserId[s],
                      callerName |-> UserName(socketUserId[s]),
                      callerAvatar |-> UserAvatar(socketUserId[s]),
                      offer |-> data.offer, callType |-> data.callType],
                     IoTo(rooms, SignalRoom(data.receiverId))) >>)

AnswerCallPayloads == {Undefined} \cup [callerId : UserIds, answer : Answers]

\* socket.on("answer_call")
answer_call(s, data) ==
  SignalRelay(s, "answer_call", data,
    IF data = Undefined THEN << >>
    ELSE << Emission("call_answered",
                     [answer |-> data.answer, answeredBy |-> socketUserId[s]],
                     IoTo(rooms, SignalRoom(data.callerId))) >>)

RejectCallPayloads == {Undefined} \cup [callerId : UserIds]

\* socket.on("reject_call")
reject_call(s, data) ==
  SignalRelay(s, "reject_call", data,
    IF data = Undefined THEN << >>
    ELSE << Emission("call_rejected", [rejectedBy |-> socketUserId[s]],
                     IoTo(rooms, SignalRoom(data.callerId))) >>)

EndCallPayloads == {Undefined} \cup [receiverId : UserIds]

\* socket.on("end_call")
end_call(s, data) ==
  SignalRelay(s, "end_call", data,
    IF data = Undefined THEN << >>
    ELSE << Emission("call_ended", [endedBy |-> socketUserId[s]],
                     IoTo(rooms, SignalRoom(data.receiverId))) >>)

IceCandidatePayloads ==
  {Undefined} \cup [receiverId : UserIds, candidate : Candidates]

\* socket.on("ice_candidate")
ice_candidate(s, data) ==
  SignalRelay(s, "ice_candidate", data,
    IF data = Undefined THEN << >>
    ELSE << Emission("ice_candidate",
                     [candidate |-> data.candidate, from |-> socketUserId[s]],
                     IoTo(rooms, SignalRoom(data.receiverId))) >>)

\* ---------------------------------------------------------------- REST pushes
\* req.app.get("io"): only part_009 does app.set("io", io)
AppGetIo == entryPoint = EntryPart009

\* emitToUser without its try/catch: a failing emit propagates to the caller
emitToUserNoCatch(emitOk) ==
  IF emitOk THEN "emitted" ELSE "thrown"

\* emitToUser's try { io.to(...).emit(...) } catch { console.error(...) }
emitToUserOutcome(emitOk) ==
  IF emitOk THEN "emitted" ELSE "logged"

\* emitToUser(io, userId, event, data): io.to(`user_${userId}`).emit(event, data)
emitToUser(rm, userId, event, data) ==
  Emission(event, data, IoTo(rm, UserRoom(userId)))

RestReceivers == UserIds \cup {Missing, GhostId}

\* POST /api/messages/send (chatControllers.js sendMessage)
RestSendMessage(senderId, receiverId, content, saveOk) ==
  /\ proc = "running"
  /\ LET status ==
           IF receiverId = Missing \/ content = Missing THEN 400
           ELSE IF findById(receiverId) = "null" THEN 404
           ELSE IF ~saveOk THEN 500
           ELSE 201
     IN /\ unread' = IF status = 201 THEN unread \cup {<<senderId, receiverId>>}
                     ELSE unread
        /\ emitted' =
             IF status = 201 /\ AppGetIo
               THEN << Emission("receive_message",
                                [sender |-> senderId, receiver |-> receiverId,
                                 content |-> content],
                                IoTo(rooms, receiverId)),
                       Emission("message_notification",
                                [senderId |-> senderId, content |-> content],
                                IoTo(rooms, receiverId)) >>
               ELSE << >>
        /\ lastOp' = [op |-> "RestSendMessage", userId |-> senderId,
                      target |-> receiverId, status |-> status]
  /\ UNCHANGED <<bookings, inflight, inactiveUsers, likes, pendingReads, entryPoint, proc, conn, socketUserId, onlineUsers, rooms,
                 dbLastSeen, connections, notifications, lastPresence>>

\* Connection.findOne({ $or: [{requester, recipient}, {recipient, requester}] })
ExistingConnection(a, b) ==
  \E c \in connections :
    \/ c.requester = a /\ c.recipient = b
    \/ c.requester = b /\ c.recipient = a

\* POST /api/connections/send-request (notificationControllers.js)
sendConnectionRequest(requesterId, recipientId, saveOk, notifOk) ==
  /\ proc = "running"
  /\ LET status ==
           IF requesterId = recipientId THEN 400
           ELSE IF findById(recipientId) = "null" THEN 404
           ELSE IF ExistingConnection(requesterId, recipientId) THEN 400
           ELSE IF ~saveOk THEN 500
           ELSE 201
         connection == [requester |-> requesterId, recipient |-> recipientId,
                        status |-> "pending"]
     IN /\ connections' = IF status = 201 THEN connections \cup {connection}
                          ELSE connections
        /\ notifications' =
             IF status = 201 /\ notifOk
               THEN notifications \cup {<<recipientId, "connection_request">>}
               ELSE notifications
        /\ emitted' =
             IF status = 201 /\ AppGetIo
               THEN << emitToUser(rooms, recipientId, "friend_request_received",
                                  [connection |-> connection, from |-> requesterId]) >>
               ELSE << >>
        /\ lastOp' = [op |-> "sendConnectionRequest", userId |-> requesterId,
                      target |-> recipientId, status |-> status]
  /\ UNCHANGED <<bookings, inflight, inactiveUsers, likes, pendingReads, entryPoint, proc, conn, socketUserId, onlineUsers, rooms, unread,
                 dbLastSeen, lastPresence>>

\* the posts of the Post collection and their author
PostIds == {"p1"}
PostAuthor == "u1"
RequestedPostIds == PostIds \cup {"p_missing"}

\* POST /api/posts/:id/like (authControllers.js toggleLike)
toggleLike(userId, postId, notifOk, saveOk, emitOk) ==
  /\ proc = "running"
  /\ LET found == postId \in PostIds
         existingLike == userId \in likes
         notifies == found /\ ~existingLike /\ PostAuthor # userId
         notified == notifies /\ notifOk
         saved == found /\ (notifies => notifOk) /\ saveOk
         pushed == saved /\ notifies /\ AppGetIo
         status ==
           IF ~found THEN 404
           ELSE IF ~saved THEN 500
           ELSE IF pushed /\ emitToUserOutcome(emitOk) = "thrown" THEN 500
           ELSE 200
         newLikes ==
           IF ~saved THEN likes
           ELSE IF existingLike THEN likes \ {userId}
           ELSE likes \cup {userId}
     IN /\ likes' = newLikes
        /\ notifications' =
             IF notified THEN notifications \cup {<<PostAuthor, "like">>}
             ELSE notifications
        /\ emitted' =
             IF pushed /\ emitToUserOutcome(emitOk) = "emitted"
               THEN << emitToUser(rooms, PostAuthor, "post_liked",
                                  [postId |-> postId, likedBy |-> [_id |-> userId],
                                   likeCount |-> Cardinality(newLikes)]) >>
               ELSE << >>
        /\ lastOp' = [op |-> "toggleLike", userId |-> userId, target |-> PostAuthor,
                      status |-> status, found |-> found, notifies |-> notifies,
                      notifOk |-> notifOk, saveOk |-> saveOk, emitOk |-> emitOk,
                      pushed |-> pushed]
  /\ UNCHANGED <<bookings, inflight, inactiveUsers, pendingReads, entryPoint, proc, conn, socketUserId,
                 onlineUsers, rooms, unread, dbLastSeen, connections, lastPresence>>

\* ---------------------------------------------------------------- suspended REST handlers
\* a handler suspended on its save is told apart by a request number
NextRequest == CHOOSE n \in 1..(MaxInflight + 1) : \A p \in inflight : p.req # n

\* the two awaits of sendConnectionRequest (notificationControllers.js): the
\* handler up to the result of Connection.findOne
connectionRequestLookup(requesterId, recipientId) ==
  /\ proc = "running"
  /\ LET status ==
           IF requesterId = recipientId THEN 400
           ELSE IF findById(recipientId) = "null" THEN 404
           ELSE IF ExistingConnection(requesterId, recipientId) THEN 400
           ELSE 0
     IN /\ status = 0 => Cardinality(inflight) < MaxInflight
        /\ inflight' =
             IF status = 0
               THEN inflight \cup {[op |-> "sendConnectionRequest", req |-> NextRequest,
                                    userId |-> requesterId, target |-> recipientId]}
               ELSE inflight
        /\ lastOp' = [op |-> "connectionRequestLookup", userId |-> requesterId,
                      target |-> recipientId, status |-> status]
  /\ emitted' = << >>
  /\ UNCHANGED <<entryPoint, proc, conn, socketUserId, onlineUsers, rooms, unread,
                 dbLastSeen, connections, notifications, inactiveUsers, likes,
                 pendingReads, bookings, lastPresence>>

\* connectionSchema.index({ requester: 1, recipient: 1 }, { unique: true })
ConnectionIndexConflict(requesterId, recipientId) ==
  \E c \in connections : c.requester = requesterId /\ c.recipient = recipientId

\* sendConnectionRequest from connection.save() on: the unique index rejects a
\* second document of the same requester and recipient
connectionRequestSave(p, notifOk) ==
  /\ proc = "running"
  /\ p \in inflight
  /\ p.op = "sendConnectionRequest"
  /\ LET status == IF ConnectionIndexConflict(p.userId, p.target) THEN 500 ELSE 201
         connection == [requester |-> p.userId, recipient |-> p.target,
                        status |-> "pending"]
     IN /\ connections' = IF status = 201 THEN connections \cup {connection}
                          ELSE connections
        /\ notifications' =
             IF status = 201 /\ notifOk
               THEN notifications \cup {<<p.target, "connection_request">>}
               ELSE notifications
        /\ emitted' =
             IF status = 201 /\ AppGetIo
               THEN << emitToUser(rooms, p.target, "friend_request_received",
                                  [connection |-> connection, from |-> p.userId]) >>
               ELSE << >>
        /\ lastOp' = [op |-> "connectionRequestSave", userId |-> p.userId,
                      target |-> p.target, status |-> status]
  /\ inflight' = inflight \ {p}
  /\ UNCHANGED <<entryPoint, proc, conn, socketUserId, onlineUsers, rooms, unread,
                 dbLastSeen, inactiveUsers, likes, pendingReads, bookings,
                 lastPresence>>

\* ---------------------------------------------------------------- bookings
\* one active slot of one developer; every booking request asks for the same
\* scheduled date and time of it
SlotIds == {"slot1"}
SlotDeveloper == "u1"
RequestedSlotIds == SlotIds \cup {Missing, "slot_missing"}

ValidStatuses == {"pending", "confirmed", "cancelled", "completed", "no-show"}
RequestedStatuses == ValidStatuses \cup {"bogus"}

\* the unique partial index on { slotId, scheduledDate, scheduledTime, status }
\* with partialFilterExpression status in [pending, confirmed]
BookingIndexConflict(id, status) ==
  /\ status \in {"pending", "confirmed"}
  /\ \E b \in BookingIds \ {id} : bookings[b].status = status

\* the _id of the next Booking document
NextBookingId(b) ==
  /\ bookings[b] = NoBooking
  /\ \A i \in 1..MaxBookings :
       b = "b" \o ToString(i) =>
         \A j \in 1..(i - 1) : bookings["b" \o ToString(j)] # NoBooking

\* createBooking up to the result of Booking.findOne
createBooking(userId, slotId, inFuture) ==
  /\ proc = "running"
  /\ LET status ==
           IF slotId = Missing THEN 400
           ELSE IF slotId \notin SlotIds THEN 404
           ELSE IF SlotDeveloper = userId THEN 400
           ELSE IF ~inFuture THEN 400
           ELSE IF \E b \in BookingIds : bookings[b].status \in {"pending", "confirmed"}
             THEN 400
           ELSE 0
     IN /\ status = 0 => Cardinality(inflight) < MaxInflight
        /\ inflight' =
             IF status = 0
               THEN inflight \cup {[op |-> "createBooking", req |-> NextRequest,
                                    userId |-> userId, target |-> slotId]}
               ELSE inflight
        /\ lastOp' = [op |-> "createBooking", userId |-> userId, target |-> slotId,
                      status |-> status]
  /\ emitted' = << >>
  /\ UNCHANGED <<entryPoint, proc, conn, socketUserId, onlineUsers, rooms, unread,
                 dbLastSeen, connections, notifications, inactiveUsers, likes,
                 pendingReads, bookings, lastPresence>>

\* createBooking from booking.save() on; createNotification is awaited after
\* the save with no try/catch of its own
createBookingSave(p, b, notifOk) ==
  /\ proc = "running"
  /\ p \in inflight
  /\ p.op = "createBooking"
  /\ NextBookingId(b)
  /\ LET saved == ~BookingIndexConflict(b, "pending")
         status == IF saved /\ notifOk THEN 201 ELSE 500
     IN /\ bookings' =
             IF saved
               THEN [bookings EXCEPT ![b] = [status |-> "pending",
                                            recruiterId |-> p.userId,
                                            developerId |-> SlotDeveloper]]
               ELSE bookings
        /\ notifications' =
             IF saved /\ notifOk
               THEN notifications \cup {<<SlotDeveloper, "booking_created">>}
               ELSE notifications
        /\ lastOp' = [op |-> "createBookingSave", userId |-> p.userId, target |-> b,
                      status |-> status]
  /\ inflight' = inflight \ {p}
  /\ emitted' = << >>
  /\ UNCHANGED <<entryPoint, proc, conn, socketUserId, onlineUsers, rooms, unread,
                 dbLastSeen, connections, inactiveUsers, likes, pendingReads,
                 lastPresence>>

\* PUT /api/bookings/:id/status
updateBookingStatus(userId, id, status, farAhead, notifOk) ==
  /\ proc = "running"
  /\ status # "cancelled" => farAhead
  /\ status # "confirmed" => notifOk
  /\ LET booking == bookings[id]
         isDeveloper == booking # NoBooking /\ booking.developerId = userId
         isRecruiter == booking # NoBooking /\ booking.recruiterId = userId
         checked ==
           IF status \notin ValidStatuses THEN 400
           ELSE IF booking = NoBooking THEN 404
           ELSE IF ~isDeveloper /\ ~isRecruiter THEN 403
           ELSE IF status = "confirmed" /\ ~isDeveloper THEN 403
           ELSE IF status = "cancelled" /\ ~farAhead THEN 400
           ELSE 0
         saved == checked = 0 /\ ~BookingIndexConflict(id, status)
         notifies == saved /\ status = "confirmed" /\ isDeveloper
         result ==
           IF checked # 0 THEN checked
           ELSE IF ~saved THEN 500
           ELSE IF notifies /\ ~notifOk THEN 500
           ELSE 200
     IN /\ bookings' = IF saved THEN [bookings EXCEPT ![id].status = status]
                       ELSE bookings
        /\ notifications' =
             IF notifies /\ notifOk
               THEN notifications \cup {<<booking.recruiterId, "booking_confirmed">>}
               ELSE notifications
        /\ lastOp' = [op |-> "updateBookingStatus", userId |-> userId, target |-> id,
                      requested |-> status, status |-> result]
  /\ emitted' = << >>
  /\ UNCHANGED <<entryPoint, proc, conn, socketUserId, onlineUsers, rooms, unread,
                 dbLastSeen, connections, inactiveUsers, likes, pendingReads,
                 inflight, lastPresence>>

\* DELETE /api/bookings/:id
cancelBooking(userId, id, farAhead) ==
  /\ proc = "running"
  /\ LET booking == bookings[id]
         isDeveloper == booking # NoBooking /\ booking.developerId = userId
         isRecruiter == booking # NoBooking /\ booking.recruiterId = userId
         result ==
           IF booking = NoBooking THEN 404
           ELSE IF ~isDeveloper /\ ~isRecruiter THEN 403
           ELSE IF booking.status \in {"completed", "cancelled"} THEN 400
           ELSE IF ~farAhead THEN 400
           ELSE 200
     IN /\ bookings' = IF result = 200 THEN [bookings EXCEPT ![id].status = "cancelled"]
                       ELSE bookings
        /\ lastOp' = [op |-> "cancelBooking", userId |-> userId, target |-> id,
                      status |-> result]
  /\ emitted' = << >>
  /\ UNCHANGED <<entryPoint, proc, conn, socketUserId, onlineUsers, rooms, unread,
                 dbLastSeen, connections, notifications, inactiveUsers, likes,
                 pendingReads, inflight, lastPresence>>

\* ---------------------------------------------------------------- specifications
\* the presence layer: connects, disconnects and room joins
Next ==
  \/ \E s \in SocketIds, token \in Tokens : ConnectionRejected(s, token)
  \/ \E s \in SocketIds, token \in Tokens : Connection(s, token)
  \/ \E s \in SocketIds, dbOk \in BOOLEAN : Disconnect(s, dbOk)
  \/ \E s \in SocketIds, userId \in UserIds : join_user_room(s, userId)

Spec == Init /\ [][Next]_vars

\* the presence layer and the inbound message events
NextEvents ==
  \/ \E s \in SocketIds, token \in Tokens : ConnectionRejected(s, token)
  \/ \E s \in SocketIds, token \in Tokens : Connection(s, token)
  \/ \E s \in SocketIds, dbOk \in BOOLEAN : Disconnect(s, dbOk)
  \/ \E s \in SocketIds, userId \in UserIds : join_user_room(s, userId)
  \/ \E s \in SocketIds, messageData \in ServerPayloads : sendMessage(s, messageData)
  \/ \E s \in SocketIds, data \in Part009Payloads : send_message(s, data)
  \/ ProcessExit

SpecEvents == Init /\ [][NextEvents]_vars

\* the chat REST handler, next to connects and disconnects
NextChat ==
  \/ \E s \in SocketIds, token \in Tokens : Connection(s, token)
  \/ \E s \in SocketIds, dbOk \in BOOLEAN : Disconnect(s, dbOk)
  \/ \E senderId \in UserIds, receiverId \in RestReceivers,
        content \in Contents \cup {Missing}, saveOk \in BOOLEAN :
       RestSendMessage(senderId, receiverId, content, saveOk)

SpecChat == Init /\ [][NextChat]_vars

\* the connection-request REST handler, next to connects and disconnects
NextRest ==
  \/ \E s \in SocketIds, token \in Tokens : Connection(s, token)
  \/ \E s \in SocketIds, dbOk \in BOOLEAN : Disconnect(s, dbOk)
  \/ \E requesterId \in UserIds, recipientId \in RestReceivers,
        saveOk \in BOOLEAN, notifOk \in BOOLEAN :
       sendConnectionRequest(requesterId, recipientId, saveOk, notifOk)

SpecRest == Init /\ [][NextRest]_vars

\* the typing and read-receipt events over a Message collection with unread
\* messages between every two distinct users
InitInbound ==
  /\ entryPoint \in {EntryServer, EntryPart009}
  /\ proc = "running"
  /\ conn = [s \in SocketIds |-> "unused"]
  /\ socketUserId = [s \in SocketIds |-> "none"]
  /\ onlineUsers = << >>
  /\ rooms = [s \in SocketIds |-> {}]
  /\ unread = {pair \in UserIds \X UserIds : pair[1] # pair[2]}
  /\ dbLastSeen = {}
  /\ connections = {}
  /\ notifications = {}
  /\ inactiveUsers = {}
  /\ likes = {}
  /\ pendingReads = {}
  /\ bookings = [b \in BookingIds |-> NoBooking]
  /\ inflight = {}
  /\ emitted = << >>
  /\ lastPresence = [u \in Accounts |-> "none"]
  /\ lastOp = [op |-> "init"]

NextInbound ==
  \/ \E s \in SocketIds, token \in Tokens : Connection(s, token)
  \/ \E s \in SocketIds : Disconnect(s, TRUE)
  \/ \E s \in SocketIds, payload \in TypingPayloads : typing(s, payload)
  \/ \E s \in SocketIds, payload \in ReadPayloads, fatal \in BOOLEAN :
       messagesRead(s, payload, fatal)
  \/ \E p \in pendingReads, ok \in BOOLEAN : updateMany(p, ok)
  \/ \E p \in pendingReads : messagesReadResume(p)
  \/ \E s \in SocketIds, data \in MarkReadPayloads : mark_messages_read(s, data)
  \/ ProcessExit

SpecInbound == InitInbound /\ [][NextInbound]_vars

\* the presence layer over a User collection with deactivated accounts
InitAuth ==
  /\ entryPoint \in {EntryServer, EntryPart009}
  /\ proc = "running"
  /\ conn = [s \in SocketIds |-> "unused"]
  /\ socketUserId = [s \in SocketIds |-> "none"]
  /\ onlineUsers = << >>
  /\ rooms = [s \in SocketIds |-> {}]
  /\ unread = {}
  /\ dbLastSeen = {}
  /\ connections = {}
  /\ notifications = {}
  /\ inactiveUsers \in SUBSET UserIds
  /\ likes = {}
  /\ pendingReads = {}
  /\ bookings = [b \in BookingIds |-> NoBooking]
  /\ inflight = {}
  /\ emitted = << >>
  /\ lastPresence = [u \in Accounts |-> "none"]
  /\ lastOp = [op |-> "init"]

SpecAuth == InitAuth /\ [][Next]_vars

\* message relay between users while a further account listens
RelayTokens == {"jwt_" \o u : u \in Accounts}

NextRelay ==
  \/ \E s \in SocketIds, token \in RelayTokens : Connection(s, token)
  \/ \E s \in SocketIds, userId \in UserIds : join_user_room(s, userId)
  \/ \E s \in SocketIds, messageData \in ServerPayloads : sendMessage(s, messageData)
  \/ \E s \in SocketIds, data \in Part009Payloads : send_message(s, data)

SpecRelay == Init /\ [][NextRelay]_vars

\* sessions and the like endpoint with its push to the post's author
NextPush ==
  \/ \E s \in SocketIds, token \in Tokens : Connection(s, token)
  \/ \E userId \in UserIds, postId \in RequestedPostIds,
        notifOk \in BOOLEAN, saveOk \in BOOLEAN, emitOk \in BOOLEAN :
       toggleLike(userId, postId, notifOk, saveOk, emitOk)

SpecPush == Init /\ [][NextPush]_vars

\* call signaling between sessions, with room joins
NextCall ==
  \/ \E s \in SocketIds, token \in Tokens : Connection(s, token)
  \/ \E s \in SocketIds, userId \in UserIds : join_user_room(s, userId)
  \/ \E s \in SocketIds, data \in CallUserPayloads : call_user(s, data)
  \/ \E s \in SocketIds, data \in AnswerCallPayloads : answer_call(s, data)
  \/ \E s \in SocketIds, data \in RejectCallPayloads : reject_call(s, data)
  \/ \E s \in SocketIds, data \in EndCallPayloads : end_call(s, data)
  \/ \E s \in SocketIds, data \in IceCandidatePayloads : ice_candidate(s, data)

SpecCall == Init /\ [][NextCall]_vars

\* sessions joining and leaving topic rooms
NextTopics ==
  \/ \E s \in SocketIds, token \in Tokens : Connection(s, token)
  \/ \E s \in SocketIds, dbOk \in BOOLEAN : Disconnect(s, dbOk)
  \/ \E s \in SocketIds, roomId \in Topics : joinRoom(s, roomId)
  \/ \E s \in SocketIds, roomId \in Topics : leaveRoom(s, roomId)

SpecTopics == Init /\ [][NextTopics]_vars

\* connects and disconnects while messagesRead handlers are suspended on the store
NextAtomic ==
  \/ \E s \in SocketIds, token \in Tokens : Connection(s, token)
  \/ \E s \in SocketIds : Disconnect(s, TRUE)
  \/ \E s \in SocketIds, payload \in ReadPayloads, fatal \in BOOLEAN :
       messagesRead(s, payload, fatal)
  \/ \E p \in pendingReads, ok \in BOOLEAN : updateMany(p, ok)
  \/ \E p \in pendingReads : messagesReadResume(p)

SpecAtomic == Init /\ [][NextAtomic]_vars

\* concurrent connection requests, next to connects
NextConnect ==
  \/ \E s \in SocketIds, token \in Tokens : Connection(s, token)
  \/ \E requesterId \in UserIds, recipientId \in RestReceivers :
       connectionRequestLookup(requesterId, recipientId)
  \/ \E p \in inflight, notifOk \in BOOLEAN : connectionRequestSave(p, notifOk)

SpecConnect == Init /\ [][NextConnect]_vars

\* the booking endpoints
NextBooking ==
  \/ \E userId \in UserIds, slotId \in RequestedSlotIds, inFuture \in BOOLEAN :
       createBooking(userId, slotId, inFuture)
  \/ \E p \in inflight, b \in BookingIds, notifOk \in BOOLEAN :
       createBookingSave(p, b, notifOk)
  \/ \E userId \in Accounts, id \in BookingIds, status \in RequestedStatuses,
        farAhead \in BOOLEAN, notifOk \in BOOLEAN :
       updateBookingStatus(userId, id, status, farAhead, notifOk)
  \/ \E userId \in Accounts, id \in BookingIds, farAhead \in BOOLEAN :
       cancelBooking(userId, id, farAhead)

SpecBooking == Init /\ [][NextBooking]_vars

\* the life of the sessions: the gate, connects and disconnects
NextSessions ==
  \/ \E s \in SocketIds, token \in Tokens : ConnectionRejected(s, token)
  \/ \E s \in SocketIds, token \in Tokens : Connection(s, token)
  \/ \E s \in SocketIds, dbOk \in BOOLEAN : Disconnect(s, dbOk)

SpecSessions == Init /\ [][NextSessions]_vars

\* ================================================================ properties
\* positions of the events of a kind in a handler's emissions
EmissionsOf(ems, events) == {i \in 1..Len(ems) : ems[i].event \in events}

PresenceEvents == {EvOnlineSet, EvOnline, EvOffline}
MessageEvents == {"newMessage", "receive_message"}
AckEvents == {"messageDelivered", "message_delivered"}
ErrorEvents == {"messageError"}

\* resolve(U): the sessions an emission addressed to U's personal channel reaches
Resolve(u) == IoTo(rooms, PersonalRoom(u))

\* C1: a user has a registry entry if and only if the user has at least one
\* live session.
C1_EntryIffLiveSession ==
  \A u \in UserIds : isUserOnline(onlineUsers, u) <=> LiveSessionsOf(u) # {}

\* C2: registering a further session of U leaves the earlier sessions of U
\* live in U's personal channel, and after the disconnect of one session of U
\* while another session of U is still live, U is still in the registry and
\* in the full online-set broadcast of that disconnect.
C2_OtherSessionKeepsUserOnline ==
  /\ lastOp.op = "connection" =>
       \A s \in LiveSessionsOf(lastOp.userId) : PersonalRoom(lastOp.userId) \in rooms[s]
  /\ (lastOp.op = "disconnect" /\ LiveSessionsOf(lastOp.userId) # {}) =>
       /\ isUserOnline(onlineUsers, lastOp.userId)
       /\ \A i \in EmissionsOf(emitted, {EvOnlineSet}) :
            lastOp.userId \in emitted[i].data

\* C3: an online event for U is never emitted when the last transition event
\* emitted for U was online, and an offline event never when it was offline.
C3_NoRepeatedTransition ==
  [][\A u \in UserIds :
       \A i \in 1..Len(emitted') :
         /\ (emitted'[i].event = EvOnline /\ emitted'[i].data = u)
              => lastPresence[u] # "online"
         /\ (emitted'[i].event = EvOffline /\ emitted'[i].data = u)
              => lastPresence[u] # "offline"]_vars

\* C4: a user with zero live sessions is not in the registry and an emission
\* addressed to the user reaches no session.
C4_OfflineUserReachesNobody ==
  \A u \in UserIds :
    LiveSessionsOf(u) = {} => ~isUserOnline(onlineUsers, u) /\ Resolve(u) = {}

\* C5: a disconnect processed while the session's user has no registry entry
\* leaves the registry unchanged and emits no presence broadcast.
C5_DisconnectWithoutEntryIsNoOp ==
  [][\A s \in SocketIds :
       (conn[s] = "connected" /\ conn'[s] = "disconnected"
          /\ lastOp'.op = "disconnect"
          /\ ~isUserOnline(onlineUsers, socketUserId[s]))
       => /\ onlineUsers' = onlineUsers
          /\ EmissionsOf(emitted', PresenceEvents) = {}]_vars

\* C6: every live session is in exactly one personal channel, the one of its
\* own authenticated user.
PersonalRooms == {PersonalRoom(u) : u \in UserIds}

C6_OnlyOwnPersonalChannel ==
  \A s \in Live : rooms[s] \cap PersonalRooms = {PersonalRoom(socketUserId[s])}

\* C7: a REST push to a target user reaches every live session of the target,
\* and reaches nobody when the target has none.
RestOps == {"RestSendMessage", "sendConnectionRequest"}

C7_RestPushReachesLiveSessions ==
  (lastOp.op \in RestOps /\ lastOp.status = 201) =>
     IF LiveSessionsOf(lastOp.target) # {}
       THEN /\ emitted # << >>
            /\ \A i \in 1..Len(emitted) : LiveSessionsOf(lastOp.target) \subseteq emitted[i].to
       ELSE \A i \in 1..Len(emitted) : emitted[i].to = {}

\* C8: the sender carried by a delivered message event is the authenticated
\* user of the originating session.
SendOps == {"sendMessage", "send_message"}

C8_DeliveredSenderIsAuthenticated ==
  lastOp.op \in SendOps =>
    \A i \in EmissionsOf(emitted, MessageEvents) :
      (emitted[i].to # {} /\ emitted[i].data # Undefined)
        => emitted[i].data.sender = lastOp.userId

\* the receiver and the content of a send payload, Missing when absent
PayloadReceiver(op, payload) ==
  IF payload = Undefined THEN Missing
  ELSE IF op = "sendMessage" THEN payload.receiver ELSE payload.receiverId

PayloadContent(op, payload) ==
  IF payload = Undefined THEN Missing
  ELSE IF op = "sendMessage" THEN payload.content
  ELSE IF payload.message = Undefined THEN Missing
  ELSE payload.message.content

ValidSend ==
  /\ lastOp.op \in SendOps
  /\ PayloadReceiver(lastOp.op, lastOp.payload) # Missing
  /\ PayloadContent(lastOp.op, lastOp.payload) # Missing

\* C9: a valid send-message to a receiver with zero live sessions reaches no
\* session with the message and acknowledges exactly once, to the originating
\* session only.
C9_OfflineReceiverOnlyAck ==
  (ValidSend /\ LiveSessionsOf(PayloadReceiver(lastOp.op, lastOp.payload)) = {}) =>
     /\ \A i \in EmissionsOf(emitted, MessageEvents) : emitted[i].to = {}
     /\ Cardinality(EmissionsOf(emitted, AckEvents)) = 1
     /\ \A i \in EmissionsOf(emitted, AckEvents) : emitted[i].to = {lastOp.socket}

\* C10: a send-message with missing content addressed to a connected receiver,
\* or with missing receiver, reaches no session with a message, is not
\* acknowledged, answers the originating session with exactly one error, and
\* changes neither registry nor rooms.
MalformedSend(op) ==
  /\ op.op \in SendOps
  /\ op.payload # Undefined
  /\ \/ PayloadReceiver(op.op, op.payload) = Missing
     \/ /\ PayloadContent(op.op, op.payload) = Missing
        /\ LiveSessionsOf(PayloadReceiver(op.op, op.payload)) # {}

C10_MalformedSendOnlyError ==
  [][MalformedSend(lastOp')
     => /\ \A i \in EmissionsOf(emitted', MessageEvents) : emitted'[i].to = {}
        /\ EmissionsOf(emitted', AckEvents) = {}
        /\ Cardinality(EmissionsOf(emitted', ErrorEvents)) = 1
        /\ \A i \in EmissionsOf(emitted', ErrorEvents) : emitted'[i].to = {lastOp'.socket}
        /\ onlineUsers' = onlineUsers
        /\ rooms' = rooms]_vars

\* C11: no inbound event, whatever its payload, throws past its handler: the
\* server keeps running and every session stays live.
InboundOps == {"typing", "messagesRead", "mark_messages_read"} \cup SendOps

C11_InboundEventNeverStopsServer ==
  [][(lastOp'.op \in InboundOps /\ proc = "running")
       => (proc' = "running" /\ conn' = conn)]_vars

\* C12: a connection attempt with a missing credential, an invalid credential
\* or a credential of no user record is rejected: the registry and the rooms
\* are unchanged and nothing is emitted.
RejectedTokens == {Missing, "bad", "jwt_" \o GhostId}

C12_RejectedBeforeRegistry ==
  [][\A s \in SocketIds :
       (conn[s] = "unused" /\ conn'[s] # "unused" /\ lastOp'.token \in RejectedTokens)
       => /\ conn'[s] = "rejected"
          /\ onlineUsers' = onlineUsers
          /\ rooms' = rooms
          /\ emitted' = << >>]_vars

C12_Witness ==
  /\ lastOp.op = "reject"
  /\ lastOp.token = "jwt_" \o GhostId
  /\ Live # {}

\* C13: no session of a deactivated user (isActive = false) is live.
C13_NoSessionOfDeactivatedUser ==
  \A s \in Live : socketUserId[s] \notin inactiveUsers

\* C14: for every connect and disconnect the transition event (online /
\* offline) is emitted before the full online-set broadcast, and the full set
\* is the registry after the change.
PresenceOps == {"connection", "disconnect"}

C15_ConnectBroadcastsEveryLiveUser ==
  lastOp.op = "connection" =>
    /\ EmissionsOf(emitted, {EvOnlineSet}) # {}
    /\ \A i \in EmissionsOf(emitted, {EvOnlineSet}) :
         /\ emitted[i].to = Live
         /\ \A u \in UserIds : LiveSessionsOf(u) # {} => u \in emitted[i].data
    /\ EmissionsOf(emitted, {EvOnline}) # {}
    /\ \A i \in EmissionsOf(emitted, {EvOnline}) :
         emitted[i].to = Live \ {lastOp.socket}

\* the message id of a send payload
PayloadMessageId(op, payload) ==
  IF op = "sendMessage" THEN payload._id ELSE payload.message._id

\* C16: a valid send-message from A to another user B with live sessions
\* reaches every live session of B with the sent content, reaches no session
\* of a third user, and is acknowledged to A's session with the message id.
C16_MessageReachesReceiverOnly ==
  (/\ ValidSend
   /\ PayloadReceiver(lastOp.op, lastOp.payload) # lastOp.userId
   /\ LiveSessionsOf(PayloadReceiver(lastOp.op, lastOp.payload)) # {}) =>
     LET receiver == PayloadReceiver(lastOp.op, lastOp.payload)
     IN /\ EmissionsOf(emitted, MessageEvents) # {}
        /\ \A i \in EmissionsOf(emitted, MessageEvents) :
             /\ LiveSessionsOf(receiver) \subseteq emitted[i].to
             /\ emitted[i].data.content = PayloadContent(lastOp.op, lastOp.payload)
             /\ \A r \in emitted[i].to : socketUserId[r] \in {lastOp.userId, receiver}
        /\ Cardinality(EmissionsOf(emitted, AckEvents)) = 1
        /\ \A i \in EmissionsOf(emitted, AckEvents) :
             /\ emitted[i].to = {lastOp.socket}
             /\ emitted[i].data.messageId = PayloadMessageId(lastOp.op, lastOp.payload)

\* C17: a read-receipt is emitted only after the store marked the messages
\* from the original sender to the reader as read, it reaches sessions of the
\* original sender only, and a failed store update emits no receipt.
ReceiptEvents == {"messageRead", "messages_read"}
ReadOps == {"messagesReadResume", "mark_messages_read"}

C17_ReceiptAfterStoreUpdate ==
  /\ \A i \in EmissionsOf(emitted, ReceiptEvents) :
       /\ lastOp.op \in ReadOps
       /\ <<lastOp.payload.otherUserId, lastOp.payload.readBy>> \notin unread
       /\ emitted[i].to \subseteq LiveSessionsOf(lastOp.payload.otherUserId)
  /\ (lastOp.op = "messagesReadResume" /\ ~lastOp.updated) => emitted = << >>

\* C18: when the write of a REST handler succeeds, a failure of the
\* notification that goes with it is swallowed: the request succeeds and the
\* write is persisted.
C18_NotificationFailureKeepsWrite ==
  [][(lastOp'.op = "toggleLike" /\ lastOp'.found /\ lastOp'.saveOk)
       => (lastOp'.status = 200 /\ likes' # likes)]_vars

\* C19: a push through emitToUser is fire-and-forget: it never fails the REST
\* request that made it, a failing emit delivers nothing, and the registry
\* and the rooms are unchanged.
C19_PushIsFireAndForget ==
  [][(lastOp'.op = "toggleLike" /\ lastOp'.pushed)
       => /\ lastOp'.status = 200
          /\ ~lastOp'.emitOk => emitted' = << >>
          /\ onlineUsers' = onlineUsers
          /\ rooms' = rooms
          /\ conn' = conn]_vars

C19_Witness ==
  /\ lastOp.op = "toggleLike"
  /\ lastOp.pushed
  /\ ~lastOp.emitOk
  /\ LiveSessionsOf(PostAuthor) # {}

\* C20: every notification envelope pushed to a user carries the user's
\* unread count.
NotificationEvents == {"post_liked", "friend_request_received"}

C20_EnvelopeCarriesUnreadCount ==
  \A i \in EmissionsOf(emitted, NotificationEvents) :
    "unreadCount" \in DOMAIN emitted[i].data

\* C21: two inbound events of one session that each cause an emission to the
\* same destination session have their emissions issued in the order the
\* events were received, also when the handler of the first awaits the store.
C21_EmissionsKeepReceiveOrder ==
  lastOp.op = "messagesReadResume" =>
    \A i \in 1..Len(emitted) : emitted[i].to \cap lastOp.overtaken = {}

\* C22: a session becomes active only from a fresh connection that passed the
\* authentication gate; a disconnected session stays disconnected, is in no
\* room, is not the session of any registry entry and receives no emission.
C22_DisconnectedIsTerminal ==
  [][\A s \in SocketIds :
       /\ (conn'[s] = "connected" /\ conn[s] # "connected")
            => /\ conn[s] = "unused"
               /\ lastOp'.op = "connection"
               /\ Authenticate(lastOp'.token) = socketUserId'[s]
               /\ socketUserId'[s] \in Accounts
       /\ conn[s] = "disconnected" => conn'[s] = "disconnected"
       /\ conn'[s] = "disconnected"
            => /\ rooms'[s] = {}
               /\ \A u \in DOMAIN onlineUsers' : onlineUsers'[u] # s
               /\ \A i \in 1..Len(emitted') : s \notin emitted'[i].to]_vars

C22_Witness ==
  /\ \E s \in SocketIds : conn[s] = "disconnected"
  /\ lastOp.op = "connection"
  /\ Live # {}
  /\ emitted[1].to # {}

\* C23: a call-signaling event of a session of user A that names peer P is
\* relayed to P's personal channel only, with offer, answer and candidate
\* forwarded unchanged and the originator field equal to A; registry, rooms
\* and sessions are unchanged.
CallOps == {"call_user", "answer_call", "reject_call", "end_call", "ice_candidate"}

CallPeer(op, payload) ==
  IF op \in {"answer_call", "reject_call"} THEN payload.callerId
  ELSE payload.receiverId

OriginatorField(op) ==
  CASE op = "call_user" -> "callerId"
    [] op = "answer_call" -> "answeredBy"
    [] op = "reject_call" -> "rejectedBy"
    [] op = "end_call" -> "endedBy"
    [] op = "ice_candidate" -> "from"

ForwardedFields(op) ==
  CASE op = "call_user" -> {"offer", "callType"}
    [] op = "answer_call" -> {"answer"}
    [] op = "ice_candidate" -> {"candidate"}
    [] OTHER -> {}

C23_SignalingIsPureRelay ==
  [][(lastOp'.op \in CallOps /\ ~lastOp'.threw)
       => /\ Len(emitted') = 1
          /\ emitted'[1].to =
               {r \in SocketIds :
                  ("user_" \o CallPeer(lastOp'.op, lastOp'.payload)) \in rooms[r]}
          /\ emitted'[1].data[OriginatorField(lastOp'.op)] = socketUserId[lastOp'.socket]
          /\ \A f \in ForwardedFields(lastOp'.op) :
               emitted'[1].data[f] = lastOp'.payload[f]
          /\ onlineUsers' = onlineUsers
          /\ rooms' = rooms
          /\ conn' = conn]_vars

C23_Witness ==
  /\ lastOp.op = "call_user"
  /\ ~lastOp.threw
  /\ lastOp.payload.receiverId # lastOp.userId
  /\ LiveSessionsOf(lastOp.payload.receiverId) \cap emitted[1].to # {}

\* C24: joining a topic the session is already in leaves its memberships as
\* they are, leaving a topic the session is not in changes nothing, and
\* neither changes another session's memberships, the registry or the process.
TopicOps == {"joinRoom", "leaveRoom"}

C24_JoinLeaveIdempotent ==
  [][lastOp'.op \in TopicOps
       => /\ lastOp'.op = "joinRoom"
               => /\ rooms'[lastOp'.socket] = rooms[lastOp'.socket] \cup {lastOp'.room}
                  /\ lastOp'.room \in rooms[lastOp'.socket]
                       => rooms'[lastOp'.socket] = rooms[lastOp'.socket]
          /\ lastOp'.op = "leaveRoom"
               => /\ rooms'[lastOp'.socket] = rooms[lastOp'.socket] \ {lastOp'.room}
                  /\ lastOp'.room \notin rooms[lastOp'.socket]
                       => rooms'[lastOp'.socket] = rooms[lastOp'.socket]
          /\ \A o \in SocketIds \ {lastOp'.socket} : rooms'[o] = rooms[o]
          /\ onlineUsers' = onlineUsers
          /\ conn' = conn
          /\ proc' = proc]_vars

C24_Witness ==
  /\ lastOp.op = "joinRoom"
  /\ lastOp.member
  /\ lastOp.room \in rooms[lastOp.socket]
  /\ \E o \in Live \ {lastOp.socket} : rooms[o] \cap Topics # {}

\* C25: a connect and a disconnect change the registry and issue their
\* broadcasts in one step: the full-set broadcast is the key set of the
\* registry after the step and reaches the sessions connected after the step,
\* and the handlers suspended on the store and the store are left as they were.
C25_PresenceStepIsAtomic ==
  [][lastOp'.op \in PresenceOps
       => /\ Len(emitted') = 2
          /\ emitted'[1].data = DOMAIN onlineUsers'
          /\ emitted'[1].to = {s \in SocketIds : conn'[s] = "connected"}
          /\ lastOp'.op = "connection"
               => /\ lastOp'.userId \in DOMAIN onlineUsers'
                  /\ onlineUsers'[lastOp'.userId] = lastOp'.socket
                  /\ PersonalRoom(lastOp'.userId) \in rooms'[lastOp'.socket]
          /\ lastOp'.op = "disconnect" => lastOp'.userId \notin DOMAIN onlineUsers'
          /\ pendingReads' = pendingReads
          /\ unread' = unread]_vars

C25_Witness ==
  /\ lastOp.op \in PresenceOps
  /\ \E p \in pendingReads : p.stage = "awaiting"
  /\ Cardinality(Live) >= 2

\* C29: the session recorded in the registry for user U is live and was
\* authenticated as U.
C29_RegistryEntryIsFresh ==
  \A u \in DOMAIN onlineUsers :
    /\ conn[onlineUsers[u]] = "connected"
    /\ socketUserId[onlineUsers[u]] = u

C29_Witness ==
  \E u \in DOMAIN onlineUsers :
    \E s \in SocketIds : conn[s] = "disconnected" /\ socketUserId[s] = u

\* C30: only messages whose receiver is the authenticated user of the
\* originating session are marked as read, and the readBy of an emitted
\* read-receipt is that user.
C30_ReaderIsAuthenticatedUser ==
  [][/\ \A pair \in unread \ unread' :
          /\ lastOp'.op = "updateMany"
          /\ pair[2] = socketUserId[lastOp'.socket]
     /\ lastOp'.op \in ReadOps
          => \A i \in EmissionsOf(emitted', ReceiptEvents) :
               emitted'[i].data.readBy = lastOp'.userId]_vars

\* C26: at most one booking of a slot, date and time has status pending or
\* confirmed.
ActiveBookings == {b \in BookingIds : bookings[b].status \in {"pending", "confirmed"}}

C26_NoDoubleBooking == Cardinality(ActiveBookings) <= 1

\* C27: at most one Connection document exists per unordered pair of users.
C27_OneConnectionPerPair ==
  \A c1 \in connections : \A c2 \in connections :
    {c1.requester, c1.recipient} = {c2.requester, c2.recipient} => c1 = c2

\* C28: a booking whose status is cancelled or completed keeps that status.
C28_CancelledCompletedTerminal ==
  [][\A b \in BookingIds :
       bookings[b].status \in {"cancelled", "completed"}
         => bookings'[b].status = bookings[b].status]_vars

====
